---- MODULE Spec2Model ----
(***************************************************************************)
(* A model of the semver package of git-next-tag: ParseVersion, String,    *)
(* IncrementVersion and lowerOK of src/semver/parsing.go.                  *)
(*                                                                         *)
(* A Go string is a sequence of one-character strings. The literal text of *)
(* an error message is kept as one element per literal, so a message is a  *)
(* sequence in which the names spliced into it appear character by         *)
(* character. A *ParsedVersion is a sequence of length 0 (nil) or 1.       *)
(***************************************************************************)
EXTENDS Integers, Sequences, FiniteSets, TLC

\* ---------------------------------------------------------------- bounds
\* Longest run of digits in the maturity counter of an input string.
MaxDigits == 2
\* Number of times a returned version is taken as the next current version.
MaxBumps == 1

\* The digits input strings are written with.
InputDigits == {"0", "9"}

\* ------------------------------------------------------ VersionSegment
NonSegment == 0
Major == 1
Minor == 2
Patch == 3
Alpha == 4
Beta == 5
Gamma == 6
RC == 7
Pre == 8

VersionSegment == NonSegment..Pre

\* Go strings, as sequences of characters.
sAlpha == <<"a", "l", "p", "h", "a">>
sBeta == <<"b", "e", "t", "a">>
sGamma == <<"g", "a", "m", "m", "a">>
sRC == <<"r", "c">>
sPre == <<"p", "r", "e">>

vsNameNoEmpty == <<<<"m", "a", "j", "o", "r">>, <<"m", "i", "n", "o", "r">>,
  <<"p", "a", "t", "c", "h">>, sAlpha, sBeta, sGamma, sRC, sPre, <<>>>>

\* vsName[vs + 1] is the Go vsName[vs].
vsName == <<<<>>, <<"m", "a", "j", "o", "r">>, <<"m", "i", "n", "o", "r">>,
  <<"p", "a", "t", "c", "h">>, sAlpha, sBeta, sGamma, sRC, sPre>>

\* VersionSegment.String
SegString(vs) == vsName[vs + 1]

\* ------------------------------------------------------------- strings
DigitChars == <<"0", "1", "2", "3", "4", "5", "6", "7", "8", "9">>

IsDigit(c) == \E k \in 1..10 : DigitChars[k] = c

DigitVal(c) == (CHOOSE k \in 1..10 : DigitChars[k] = c) - 1

\* strconv.Atoi on a non-empty run of digits (the only argument ParseVersion
\* gives it), far below the range of int.
RECURSIVE Atoi(_)
Atoi(s) ==
  IF Len(s) = 0 THEN 0
  ELSE Atoi(SubSeq(s, 1, Len(s) - 1)) * 10 + DigitVal(s[Len(s)])

ItoaLastDigit(n) == <<DigitChars[(n % 10) + 1]>>

\* fmt.Sprint of a non-negative int: decimal, no leading zero.
RECURSIVE Itoa(_)
Itoa(n) ==
  IF n < 10 THEN <<DigitChars[n + 1]>>
  ELSE Itoa(n \div 10) \o <<DigitChars[(n % 10) + 1]>>

UpperChars == <<"A", "B", "C", "D", "E", "F", "G", "H", "I", "J", "K", "L", "M",
  "N", "O", "P", "Q", "R", "S", "T", "U", "V", "W", "X", "Y", "Z">>

LowerChars == <<"a", "b", "c", "d", "e", "f", "g", "h", "i", "j", "k", "l", "m",
  "n", "o", "p", "q", "r", "s", "t", "u", "v", "w", "x", "y", "z">>

\* strings.ToLower
ToLower(s) ==
  [k \in 1..Len(s) |->
    IF \E u \in 1..26 : UpperChars[u] = s[k]
    THEN LowerChars[CHOOSE u \in 1..26 : UpperChars[u] = s[k]]
    ELSE s[k]]

\* lit occurs in s at position i.
HasLit(s, i, lit) ==
  /\ i >= 1
  /\ i + Len(lit) - 1 <= Len(s)
  /\ SubSeq(s, i, i + Len(lit) - 1) = lit

\* The position after the longest run of digits of s that starts at i (\d+
\* is greedy, and what follows it in the pattern is never a digit).
RECURSIVE SkipDigits(_, _)
SkipDigits(s, i) ==
  IF i <= Len(s) /\ IsDigit(s[i]) THEN SkipDigits(s, i + 1) ELSE i

\* The keywords of the maturity clause of the pattern, in its order.
Keywords == <<sAlpha, sBeta, sGamma, sRC>>

FindStringSubmatchNoEnd(v) ==
  LET a1 == IF HasLit(v, 1, <<"v">>) THEN 2 ELSE 1
      b1 == SkipDigits(v, a1)
      a2 == b1 + 1
      b2 == SkipDigits(v, a2)
      a3 == b2 + 1
      b3 == SkipDigits(v, a3)
      kws == {k \in 1..Len(Keywords) : HasLit(v, b3, <<"-">> \o Keywords[k])}
      kw == IF kws = {} THEN <<>> ELSE Keywords[CHOOSE k \in kws : TRUE]
      a5 == b3 + 1 + Len(kw) + 1
      b5 == SkipDigits(v, a5)
      hasLower == /\ kws # {}
                  /\ HasLit(v, a5 - 1, <<".">>)
                  /\ b5 > a5
      e == IF hasLower THEN b5 ELSE b3
      hasPre == HasLit(v, e, <<"-">> \o sPre)
      z == IF hasPre THEN e + 4 ELSE e
  IN IF /\ b1 > a1 /\ HasLit(v, b1, <<".">>)
        /\ b2 > a2 /\ HasLit(v, b2, <<".">>)
        /\ b3 > a3
        /\ z <= Len(v) + 1
     THEN << SubSeq(v, 1, z - 1),
             SubSeq(v, a1, b1 - 1),
             SubSeq(v, a2, b2 - 1),
             SubSeq(v, a3, b3 - 1),
             IF hasLower THEN kw ELSE <<>>,
             IF hasLower THEN SubSeq(v, a5, b5 - 1) ELSE <<>>,
             IF hasPre THEN sPre ELSE <<>> >>
     ELSE <<>>

\* RegexpString.FindStringSubmatch:
\*   \Av?(\d+)[.](\d+)[.](\d+)(?:-(alpha|beta|gamma|rc)[.](\d+))?(?:[-](pre))?\z
\* The result is <<>> when v does not match, else the seven submatches,
\* element k + 1 being the Go matches[k]; a group that took no part is "".
FindStringSubmatch(v) ==
  LET a1 == IF HasLit(v, 1, <<"v">>) THEN 2 ELSE 1
      b1 == SkipDigits(v, a1)
      a2 == b1 + 1
      b2 == SkipDigits(v, a2)
      a3 == b2 + 1
      b3 == SkipDigits(v, a3)
      kws == {k \in 1..Len(Keywords) : HasLit(v, b3, <<"-">> \o Keywords[k])}
      kw == IF kws = {} THEN <<>> ELSE Keywords[CHOOSE k \in kws : TRUE]
      a5 == b3 + 1 + Len(kw) + 1
      b5 == SkipDigits(v, a5)
      hasLower == /\ kws # {}
                  /\ HasLit(v, a5 - 1, <<".">>)
                  /\ b5 > a5
      e == IF hasLower THEN b5 ELSE b3
      hasPre == HasLit(v, e, <<"-">> \o sPre)
      z == IF hasPre THEN e + 4 ELSE e
  IN IF /\ b1 > a1 /\ HasLit(v, b1, <<".">>)
        /\ b2 > a2 /\ HasLit(v, b2, <<".">>)
        /\ b3 > a3
        /\ z = Len(v) + 1
     THEN << v,
             SubSeq(v, a1, b1 - 1),
             SubSeq(v, a2, b2 - 1),
             SubSeq(v, a3, b3 - 1),
             IF hasLower THEN kw ELSE <<>>,
             IF hasLower THEN SubSeq(v, a5, b5 - 1) ELSE <<>>,
             IF hasPre THEN sPre ELSE <<>> >>
     ELSE <<>>

\* ------------------------------------------------------- ParsedVersion
\* The zero value of the struct.
ParsedVersion == [major |-> 0, minor |-> 0, patch |-> 0, lower |-> 0,
                  lowerCategory |-> NonSegment, isPre |-> FALSE]

\* A nil pointer, a nil error, and a pointer to a value.
Nil == <<>>
Ptr(x) == <<x>>
Deref(p) == p[1]

SetLowerNoCounter(pv, matches, kw, seg) ==
  IF ToLower(matches[5]) = kw
  THEN [pv EXCEPT !.lowerCategory = seg]
  ELSE pv

\* One of the four "if strings.ToLower(matches[4]) == ..." of ParseVersion.
SetLower(pv, matches, kw, seg) ==
  IF ToLower(matches[5]) = kw
  THEN [pv EXCEPT !.lower = Atoi(matches[6]), !.lowerCategory = seg]
  ELSE pv

ParseVersion(v) ==
  LET matches == FindStringSubmatch(v)
      p0 == ParsedVersion
      p1 == IF ToLower(matches[7]) = sPre THEN [p0 EXCEPT !.isPre = TRUE] ELSE p0
      p2 == SetLower(p1, matches, sAlpha, Alpha)
      p3 == SetLower(p2, matches, sBeta, Beta)
      p4 == SetLower(p3, matches, sGamma, Gamma)
      p5 == SetLower(p4, matches, sRC, RC)
      p6 == [p5 EXCEPT !.major = Atoi(matches[2]),
                       !.minor = Atoi(matches[3]),
                       !.patch = Atoi(matches[4])]
  IN IF Len(matches) = 0 THEN Nil ELSE Ptr(p6)

StringLowerAfterPre(pv) ==
  LET s0 == Itoa(pv.major) \o <<".">> \o Itoa(pv.minor) \o <<".">> \o Itoa(pv.patch)
      s1 == IF pv.isPre THEN s0 \o <<"-">> \o sPre ELSE s0
  IN IF pv.lowerCategory # NonSegment
     THEN s1 \o <<"-">> \o SegString(pv.lowerCategory) \o <<".">> \o Itoa(pv.lower)
     ELSE s1

\* ParsedVersion.String
String(pv) ==
  LET s0 == Itoa(pv.major) \o <<".">> \o Itoa(pv.minor) \o <<".">> \o Itoa(pv.patch)
      s1 == IF pv.lowerCategory # NonSegment
            THEN s0 \o <<"-">> \o SegString(pv.lowerCategory) \o <<".">> \o Itoa(pv.lower)
            ELSE s0
  IN IF pv.isPre THEN s1 \o <<"-">> \o sPre ELSE s1

\* ---------------------------------------------------- IncrementVersion
\* What a call returns: the pointer, the error (Nil, or the message), and
\* whether the call panicked instead of returning.
Return(val, err) == [val |-> val, err |-> err, panicked |-> FALSE]
Panic == [val |-> Nil, err |-> Nil, panicked |-> TRUE]

errNotSpecified == <<"Did not specify how to upgrade the version">>

lowerMapAlphaFromBeta ==
  [seg \in Alpha..RC |->
    CASE seg = Alpha -> [c \in {NonSegment, Alpha, Beta, Gamma, RC} |->
                          CASE c = NonSegment -> 1 [] c = Alpha -> 1 [] c = Beta -> 2
                            [] c = Gamma -> 0 [] c = RC -> 0]
      [] seg = Beta -> [c \in {NonSegment, Alpha, Beta, Gamma, RC} |->
                          CASE c = NonSegment -> 1 [] c = Alpha -> 2 [] c = Beta -> 1
                            [] c = Gamma -> 0 [] c = RC -> 0]
      [] seg = Gamma -> [c \in {NonSegment, Alpha, Beta, Gamma, RC} |->
                          CASE c = NonSegment -> 1 [] c = Alpha -> 2 [] c = Beta -> 2
                            [] c = Gamma -> 1 [] c = RC -> 0]
      [] seg = RC -> [c \in {NonSegment, Alpha, Beta, Gamma, RC} |->
                          CASE c = NonSegment -> 1 [] c = Alpha -> 2 [] c = Beta -> 2
                            [] c = Gamma -> 2 [] c = RC -> 1]]

lowerMapGammaFromRC ==
  [seg \in Alpha..RC |->
    CASE seg = Alpha -> [c \in {NonSegment, Alpha, Beta, Gamma, RC} |->
                          CASE c = NonSegment -> 1 [] c = Alpha -> 1 [] c = Beta -> 0
                            [] c = Gamma -> 0 [] c = RC -> 0]
      [] seg = Beta -> [c \in {NonSegment, Alpha, Beta, Gamma, RC} |->
                          CASE c = NonSegment -> 1 [] c = Alpha -> 2 [] c = Beta -> 1
                            [] c = Gamma -> 0 [] c = RC -> 0]
      [] seg = Gamma -> [c \in {NonSegment, Alpha, Beta, Gamma, RC} |->
                          CASE c = NonSegment -> 1 [] c = Alpha -> 2 [] c = Beta -> 2
                            [] c = Gamma -> 1 [] c = RC -> 2]
      [] seg = RC -> [c \in {NonSegment, Alpha, Beta, Gamma, RC} |->
                          CASE c = NonSegment -> 1 [] c = Alpha -> 2 [] c = Beta -> 2
                            [] c = Gamma -> 2 [] c = RC -> 1]]

lowerMap ==
  [seg \in Alpha..RC |->
    CASE seg = Alpha -> [c \in {NonSegment, Alpha, Beta, Gamma, RC} |->
                          CASE c = NonSegment -> 1 [] c = Alpha -> 1 [] c = Beta -> 0
                            [] c = Gamma -> 0 [] c = RC -> 0]
      [] seg = Beta -> [c \in {NonSegment, Alpha, Beta, Gamma, RC} |->
                          CASE c = NonSegment -> 1 [] c = Alpha -> 2 [] c = Beta -> 1
                            [] c = Gamma -> 0 [] c = RC -> 0]
      [] seg = Gamma -> [c \in {NonSegment, Alpha, Beta, Gamma, RC} |->
                          CASE c = NonSegment -> 1 [] c = Alpha -> 2 [] c = Beta -> 2
                            [] c = Gamma -> 1 [] c = RC -> 0]
      [] seg = RC -> [c \in {NonSegment, Alpha, Beta, Gamma, RC} |->
                          CASE c = NonSegment -> 1 [] c = Alpha -> 2 [] c = Beta -> 2
                            [] c = Gamma -> 2 [] c = RC -> 1]]

\* lowerMap[seg][cat]: a Go map gives the zero value for a key it lacks.
lowerMapAt(seg, cat) ==
  IF seg \in DOMAIN lowerMap
  THEN IF cat \in DOMAIN lowerMap[seg] THEN lowerMap[seg][cat] ELSE 0
  ELSE 0

\* The error of lowerOK (parsing.go line 196).
lowerErr(pv, seg) ==
  <<"Cannot create an ">> \o SegString(seg)
    \o <<" version if the current version is already a(n) ">>
    \o SegString(pv.lowerCategory) \o <<" one">>

lowerSameNoCount(pv, seg, isPre) ==
  [major |-> pv.major, minor |-> pv.minor, patch |-> pv.patch,
   lower |-> pv.lower, lowerCategory |-> seg, isPre |-> isPre]

\* The value of the branch i == 1 of lowerOK.
lowerSame(pv, seg, isPre) ==
  [major |-> pv.major, minor |-> pv.minor, patch |-> pv.patch,
   lower |-> pv.lower + 1, lowerCategory |-> seg, isPre |-> isPre]

lowerHigherNoReset(pv, seg, isPre) ==
  [major |-> pv.major, minor |-> pv.minor, patch |-> pv.patch,
   lower |-> pv.lower + 1, lowerCategory |-> seg, isPre |-> FALSE]

\* The value of the branch i == 2 of lowerOK.
lowerHigher(pv, seg, isPre) ==
  [major |-> pv.major, minor |-> pv.minor, patch |-> pv.patch,
   lower |-> 1, lowerCategory |-> seg, isPre |-> FALSE]

lowerOK(pv, seg, isPre) ==
  LET i == lowerMapAt(seg, pv.lowerCategory)
  IN CASE i = 0 -> Return(Nil, lowerErr(pv, seg))
       [] i = 1 -> Return(Ptr(lowerSame(pv, seg, isPre)), Nil)
       [] i = 2 -> Return(Ptr(lowerHigher(pv, seg, isPre)), Nil)
       [] OTHER -> Panic

\* case Major
caseMajor(pv, isPre) ==
  Return(Ptr([major |-> pv.major + 1, minor |-> 0, patch |-> 0,
              lower |-> 0, lowerCategory |-> NonSegment, isPre |-> isPre]), Nil)

caseMinorKeepsPatch(pv, isPre) ==
  Return(Ptr([major |-> pv.major, minor |-> pv.minor + 1, patch |-> pv.patch,
              lower |-> 0, lowerCategory |-> NonSegment, isPre |-> isPre]), Nil)

\* case Minor
caseMinor(pv, isPre) ==
  Return(Ptr([major |-> pv.major, minor |-> pv.minor + 1, patch |-> 0,
              lower |-> 0, lowerCategory |-> NonSegment, isPre |-> isPre]), Nil)

\* case Patch
casePatch(pv, isPre) ==
  Return(Ptr([major |-> pv.major, minor |-> pv.minor, patch |-> pv.patch + 1,
              lower |-> 0, lowerCategory |-> NonSegment, isPre |-> isPre]), Nil)

casePreGuardInverted(pv, isPre) ==
  IF pv.isPre
  THEN Return(Nil, <<"Cannot upgrade non-prerelease version ">> \o String(pv)
                   \o <<" to non-prerelease">>)
  ELSE Return(Ptr([major |-> pv.major, minor |-> pv.minor, patch |-> pv.patch,
                   lower |-> pv.lower, lowerCategory |-> pv.lowerCategory,
                   isPre |-> isPre]), Nil)

casePreClearsCategory(pv, isPre) ==
  IF ~pv.isPre
  THEN Return(Nil, <<"Cannot upgrade non-prerelease version ">> \o String(pv)
                   \o <<" to non-prerelease">>)
  ELSE Return(Ptr([major |-> pv.major, minor |-> pv.minor, patch |-> pv.patch,
                   lower |-> 0, lowerCategory |-> NonSegment,
                   isPre |-> isPre]), Nil)

\* case Pre
casePre(pv, isPre) ==
  IF ~pv.isPre
  THEN Return(Nil, <<"Cannot upgrade non-prerelease version ">> \o String(pv)
                   \o <<" to non-prerelease">>)
  ELSE Return(Ptr([major |-> pv.major, minor |-> pv.minor, patch |-> pv.patch,
                   lower |-> pv.lower, lowerCategory |-> pv.lowerCategory,
                   isPre |-> isPre]), Nil)

caseNonSegmentKeeps(pv) == Return(Ptr(pv), Nil)

\* case NonSegment
caseNonSegment(pv) == Return(Nil, errNotSpecified)

IncrementVersion(pv, vs, isPre) ==
  CASE vs = Major -> caseMajor(pv, isPre)
    [] vs = Minor -> caseMinor(pv, isPre)
    [] vs = Patch -> casePatch(pv, isPre)
    [] vs \in {Alpha, Beta, Gamma, RC} -> lowerOK(pv, vs, isPre)
    [] vs = Pre -> casePre(pv, isPre)
    [] vs = NonSegment -> caseNonSegment(pv)
    [] OTHER -> Return(Nil, errNotSpecified)

\* -------------------------------------------------- ParsedVersionSlice
\* Bound of the model: the longest slice made of tag names of SortPool.
MaxLen == 3

\* The outcome of one "if ... return true; if ... return false" pair of
\* Less: it returns true, returns false, or falls through to the next.
retTrue == "true"
retFalse == "false"
fallThrough == "next"

lessNilLast(tvi, tvj) ==
  IF tvj = Nil THEN IF tvi = Nil THEN retFalse ELSE retTrue
  ELSE IF tvi = Nil THEN retFalse
  ELSE fallThrough

\* Less, lines 243-251: the nil checks.
lessNil(tvi, tvj) ==
  IF tvj = Nil THEN retFalse
  ELSE IF tvi = Nil THEN retTrue
  ELSE fallThrough

lessIntOrEqual(x, y) ==
  IF x <= y THEN retTrue
  ELSE IF x > y THEN retFalse
  ELSE fallThrough

\* Less, lines 253-258 and alike: two ints.
lessInt(x, y) ==
  IF x < y THEN retTrue
  ELSE IF x > y THEN retFalse
  ELSE fallThrough

lessCategoryAsInt(ci, cj) ==
  IF ci < cj THEN retTrue
  ELSE IF ci > cj THEN retFalse
  ELSE fallThrough

\* Less, lines 274-286: the categories.
lessCategory(ci, cj) ==
  IF ci = NonSegment /\ cj # NonSegment THEN retFalse
  ELSE IF ci # NonSegment /\ cj = NonSegment THEN retTrue
  ELSE IF ci < cj THEN retTrue
  ELSE IF ci > cj THEN retFalse
  ELSE fallThrough

lessPreFirst(pi, pj) ==
  IF pi /\ ~pj THEN retFalse
  ELSE IF ~pi /\ pj THEN retTrue
  ELSE retFalse

\* Less, lines 295-302: the pre markers, and the final return.
lessPre(pi, pj) ==
  IF pi /\ ~pj THEN retTrue
  ELSE IF ~pi /\ pj THEN retFalse
  ELSE retFalse

\* The first of the outcomes that is not a fall through.
RECURSIVE firstReturn(_)
firstReturn(rs) ==
  IF rs[1] # fallThrough THEN rs[1] = retTrue ELSE firstReturn(Tail(rs))

\* ParsedVersionSlice.Less; i and j count from 1.
Less(s, i, j) ==
  LET tvj == s[j]
      tvi == s[i]
  IN IF lessNil(tvi, tvj) # fallThrough THEN lessNil(tvi, tvj) = retTrue
     ELSE firstReturn(<< lessInt(Deref(tvi).major, Deref(tvj).major),
                         lessInt(Deref(tvi).minor, Deref(tvj).minor),
                         lessInt(Deref(tvi).patch, Deref(tvj).patch),
                         lessCategory(Deref(tvi).lowerCategory, Deref(tvj).lowerCategory),
                         lessInt(Deref(tvi).lower, Deref(tvj).lower),
                         lessPre(Deref(tvi).isPre, Deref(tvj).isPre) >>)

\* ParsedVersionSlice.Swap
Swap(s, i, j) == [s EXCEPT ![i] = s[j], ![j] = s[i]]

insertOnce(s, j) ==
  IF j > 1 /\ Less(s, j, j - 1) THEN Swap(s, j, j - 1) ELSE s

\* The inner loop of the insertion sort of package sort:
\*   for j := i; j > a && data.Less(j, j-1); j-- { data.Swap(j, j-1) }
RECURSIVE insert(_, _)
insert(s, j) ==
  IF j > 1 /\ Less(s, j, j - 1) THEN insert(Swap(s, j, j - 1), j - 1) ELSE s

\* Its outer loop: for i := a + 1; i < b; i++
RECURSIVE insertionSort(_, _)
insertionSort(s, i) ==
  IF i <= Len(s) THEN insertionSort(insert(s, i), i + 1) ELSE s

\* sort.Sort on a slice of at most 12 elements, which package sort sorts
\* by insertion.
Sort(s) == insertionSort(s, 2)

\* --------------------------------------------------------------- inputs
\* The runs of digits of length 1..n.
NumStrs(n) == UNION {[1..k -> InputDigits] : k \in 1..n}

\* The maturity clauses an input string is written with, "" included.
LowerClauses ==
  {<<>>} \cup {<<"-">> \o Keywords[k] \o <<".">> \o c :
                 k \in 1..Len(Keywords), c \in NumStrs(MaxDigits)}

\* Strings of the grammar v?M.m.p[-kw.c][-pre] with one-digit numbers.
GridInputs ==
  {pre \o <<ma, ".", mi, ".", pa>> \o lo \o su :
     pre \in {<<>>, <<"v">>},
     ma \in InputDigits, mi \in InputDigits, pa \in InputDigits,
     lo \in LowerClauses, su \in {<<>>, <<"-">> \o sPre}}

\* Strings of the grammar with longer numbers and leading zeros; the first
\* four are those of TestParseVersion and TestIncrementVersion.
LongInputs ==
  { <<"1", ".", "0", ".", "0">>,
    <<"v", "1", ".", "0", ".", "0">> \o <<"-">> \o sAlpha \o <<".", "2">>,
    <<"1", ".", "2", ".", "3">> \o <<"-">> \o sAlpha \o <<".", "2", "-">> \o sPre,
    <<"1", ".", "2", ".", "3">> \o <<"-">> \o sBeta \o <<".", "2", "-">> \o sPre,
    <<"0", "9", "0", ".", "0", "9", ".", "9", "9">> \o <<"-">> \o sGamma
       \o <<".", "0", "9", "-">> \o sPre,
    <<"v", "1", "0", ".", "0", "0", ".", "0", "1", "0">>,
    <<"1", "9", ".", "9", "9", ".", "9", "9", "9", "-">> \o sPre,
    <<"0", "0", ".", "1", "0", "9", ".", "0">> \o <<"-">> \o sRC \o <<".", "1", "0", "0">> }

GoodInputs == GridInputs \cup LongInputs

\* Strings outside the grammar: the ones of TestParseVersion, and more.
BadInputs ==
  { <<>>,
    <<"9", ".", "0">>,
    <<"9", ".", "0", ".", "0", "-", "p", "r", "e", ".", "9">>,
    <<"9", ".", "0", ".", "0">> \o <<"-">> \o sAlpha \o <<".", "9">>
       \o <<"-">> \o sBeta \o <<".", "9">>,
    <<"9", ".", "0", ".", "0", "-", "p", "r", "e">> \o <<"-">> \o sAlpha \o <<".", "9">>,
    <<"9", ".", "0", ".", "0", "-", "p", "r", "e", "-", "p", "r", "e">>,
    <<"9", ".", "0", ".", "0", "-", "r", "c">>,
    <<"9", ".", "0", ".", "0", "-", "r", "c", ".">>,
    <<"9", ".", "0", ".", "0", "-", "A", "L", "P", "H", "A", ".", "9">>,
    <<"9", ".", "0", ".", "0", "-", "P", "R", "E">>,
    <<"V", "9", ".", "0", ".", "0">>,
    <<"v", "v", "9", ".", "0", ".", "0">>,
    <<" ", "9", ".", "0", ".", "0">>,
    <<"9", ".", "0", ".", "0", " ">>,
    <<"9", ".", "0", ".", "0", ".", "0">>,
    <<"9", ".", ".", "0">>,
    <<".", "0", ".", "0">>,
    <<"9", "-", "0", "-", "0">> }

InputStrings == GoodInputs \cup BadInputs

\* ---------------------------------------------------------------- state
VARIABLES
  pv,      \* the current version: Nil before a parse and after a failed one
  origin,  \* "none", or what produced pv: "ParseVersion" or "IncrementVersion"
  bumps,   \* how many returned versions were taken as current since the parse
  last,    \* the last call: its receiver, arguments and results
  slice,   \* a ParsedVersionSlice
  cmp,     \* the last call of Less on slice: its arguments and its result
  unsorted, \* what slice was before sort.Sort, <<"none">> before it is called
  pc,          \* where a run of nextTag is
  tags,        \* the names of the tags of the repository, as retrieveTags gives them
  flags,       \* the bump flags of the command line that are set
  tagVersions, \* nextTag's slice of the same name
  pvCurrent,   \* nextTag's variable of the same name
  segment,     \* nextTag's vs, the result of getVersionSegment
  pvNext,      \* nextTag's variable of the same name
  dryrun,      \* the value read from the flag dry-run
  ret,         \* the error nextTag returned, Nil for a nil error
  created,     \* the tags the run created in the repository
  remotes,     \* how many remotes repo.Remotes() listed
  pushed,      \* the remotes, by position, a push to which succeeded
  pvFinal,     \* nextTag's variable of the same name
  rewritten,   \* the files the run rewrote
  described,   \* what git describe --contains did in the run
  heap,        \* the ParsedVersion values in memory, by address
  lastCall     \* the last call of IncrementVersion through an address

incVars == <<pv, origin, bumps, last>>
lessVars == <<slice, cmp, unsorted>>
tagVars == <<pc, tags, flags, tagVersions, pvCurrent, segment, pvNext, dryrun,
             ret, created, remotes, pushed, pvFinal, rewritten, described>>
heapVars == <<heap, lastCall>>
vars == <<pv, origin, bumps, last, slice, cmp, unsorted,
          pc, tags, flags, tagVersions, pvCurrent, segment, pvNext, dryrun,
          ret, created, remotes, pushed, pvFinal, rewritten, described, heap, lastCall>>

NoLess == [op |-> "none", i |-> 0, j |-> 0, res |-> FALSE]
NotSorted == <<"none">>

\* No call yet. A call is kept with the address of its receiver, its
\* arguments, the memory before it, and the address (0 for nil) it returned.
NoIncrement == [op |-> "none", recv |-> 0, vs |-> NonSegment, isPre |-> FALSE,
                before |-> <<>>, val |-> 0, failed |-> FALSE]

\* git describe was not run yet.
NotDescribed == [ran |-> FALSE, failed |-> FALSE, out |-> <<>>]

NoCall == [op |-> "none", input |-> <<>>, recv |-> Nil, vs |-> NonSegment,
           isPre |-> FALSE, val |-> Nil, err |-> Nil, panicked |-> FALSE,
           out |-> <<>>, fromParse |-> FALSE]

Init ==
  /\ pv = Nil
  /\ origin = "none"
  /\ bumps = 0
  /\ last = NoCall
  /\ slice = <<>>
  /\ cmp = NoLess
  /\ unsorted = NotSorted
  /\ pc = "idle"
  /\ tags = {}
  /\ flags = {}
  /\ tagVersions = <<>>
  /\ pvCurrent = Nil
  /\ segment = NonSegment
  /\ pvNext = Nil
  /\ dryrun = TRUE
  /\ ret = Nil
  /\ created = {}
  /\ remotes = 0
  /\ pushed = {}
  /\ pvFinal = Nil
  /\ rewritten = {}
  /\ described = NotDescribed
  /\ heap = <<>>
  /\ lastCall = NoIncrement

\* pv := ParseVersion(v) for a tag name v, the first call of a run.
Parse ==
  /\ last.op = "none"
  /\ \E v \in InputStrings :
    /\ pv' = ParseVersion(v)
    /\ origin' = IF pv' = Nil THEN "none" ELSE "ParseVersion"
    /\ bumps' = 0
    /\ last' = [NoCall EXCEPT !.op = "ParseVersion", !.input = v, !.val = pv']
    /\ UNCHANGED lessVars
    /\ UNCHANGED tagVars
    /\ UNCHANGED heapVars

\* pvNext, err := pv.IncrementVersion(vs, isPre)
Increment ==
  \E vs \in VersionSegment, isPre \in BOOLEAN :
    /\ pv # Nil
    /\ LET r == IncrementVersion(Deref(pv), vs, isPre)
       IN last' = [NoCall EXCEPT !.op = "IncrementVersion", !.recv = pv, !.vs = vs,
                                 !.isPre = isPre, !.val = r.val, !.err = r.err,
                                 !.panicked = r.panicked]
    /\ UNCHANGED <<pv, origin, bumps>>
    /\ UNCHANGED lessVars
    /\ UNCHANGED tagVars
    /\ UNCHANGED heapVars

\* The returned version becomes the current one (nextTag calls
\* IncrementVersion on pvNext).
Adopt ==
  /\ last.op = "IncrementVersion"
  /\ last.recv = pv
  /\ last.val # Nil
  /\ bumps < MaxBumps
  /\ pv' = last.val
  /\ origin' = "IncrementVersion"
  /\ bumps' = bumps + 1
  /\ UNCHANGED last
  /\ UNCHANGED lessVars
  /\ UNCHANGED tagVars
  /\ UNCHANGED heapVars

\* s := pv.String()
Format ==
  /\ pv # Nil
  /\ last.op # "String"
  /\ last' = [NoCall EXCEPT !.op = "String", !.recv = pv,
                            !.input = IF last.op = "ParseVersion" THEN last.input ELSE <<>>,
                            !.out = String(Deref(pv)),
                            !.fromParse = (origin = "ParseVersion")]
  /\ UNCHANGED <<pv, origin, bumps>>
  /\ UNCHANGED lessVars
  /\ UNCHANGED tagVars
  /\ UNCHANGED heapVars

\* pv := ParseVersion(s) for the s that String returned.
Reparse ==
  /\ last.op = "String"
  /\ pv' = ParseVersion(last.out)
  /\ origin' = IF pv' = Nil THEN "none" ELSE "ParseVersion"
  /\ last' = [last EXCEPT !.op = "Reparse", !.val = pv']
  /\ UNCHANGED bumps
  /\ UNCHANGED lessVars
  /\ UNCHANGED tagVars
  /\ UNCHANGED heapVars

Next == Parse \/ Increment \/ Adopt \/ Format \/ Reparse

Spec == Init /\ [][Next]_vars

\* ------------------------------------------- comparing and sorting tags
\* The tag names short slices are made of; the last one does not parse.
SortPool ==
  { <<"0", ".", "0", ".", "0">>,
    <<"0", ".", "0", ".", "0", "-">> \o sPre,
    <<"0", ".", "0", ".", "0", "-">> \o sAlpha \o <<".", "9">>,
    <<"0", ".", "0", ".", "0", "-">> \o sAlpha \o <<".", "9", "9">>,
    <<"0", ".", "0", ".", "0", "-">> \o sRC \o <<".", "0">>,
    <<"0", ".", "0", ".", "9", "-">> \o sBeta \o <<".", "9">>,
    <<"0", ".", "9", ".", "0", "-">> \o sGamma \o <<".", "9", "-">> \o sPre,
    <<"9", ".", "0", ".", "0">>,
    <<"9", ".", "0">> }

\* The versions of TestSorting, in its order.
TestVersions ==
  << <<"0", ".", "2", ".", "0">>,
     <<"0", ".", "1", ".", "0">>,
     <<"0", ".", "1", ".", "0", "-">> \o sPre,
     <<"0", ".", "1", ".", "0", "-">> \o sGamma \o <<".", "1", "-">> \o sPre,
     <<"0", ".", "1", ".", "0", "-">> \o sAlpha \o <<".", "1">>,
     <<"0", ".", "1", ".", "0", "-">> \o sBeta \o <<".", "1">>,
     <<"3", ".", "3", ".", "1">>,
     <<"0", ".", "1", ".", "0", "-">> \o sGamma \o <<".", "1">>,
     <<"0", ".", "1", ".", "1">>,
     <<"3", ".", "0", ".", "1">> >>

\* Orders of the versions of TestSorting: its own, each rotation of it, each
\* of these reversed, and each with two neighbours exchanged.
Rotated(t, r) == [k \in 1..Len(t) |-> t[((k + r - 1) % Len(t)) + 1]]
Reversed(t) == [k \in 1..Len(t) |-> t[Len(t) + 1 - k]]
TestOrders ==
  LET rot == {Rotated(TestVersions, r) : r \in 0..(Len(TestVersions) - 1)}
  IN rot \cup {Reversed(t) : t \in rot}
         \cup {Swap(t, k, k + 1) : t \in rot, k \in 1..(Len(TestVersions) - 1)}

\* The lists of tag names a slice is loaded from.
TagLists == UNION {[1..n -> SortPool] : n \in 1..MaxLen} \cup TestOrders

\* versionsParsed = append(versionsParsed, semver.ParseVersion(v)) for each v
Load ==
  /\ slice = <<>>
  /\ \E names \in TagLists :
    /\ slice' = [k \in 1..Len(names) |-> ParseVersion(names[k])]
    /\ UNCHANGED <<cmp, unsorted>>
    /\ UNCHANGED incVars
    /\ UNCHANGED tagVars
    /\ UNCHANGED heapVars

\* slice.Less(i, j), once, on a short slice before it is sorted
Compare ==
  /\ Len(slice) <= MaxLen
  /\ unsorted = NotSorted
  /\ cmp = NoLess
  /\ \E i \in 1..Len(slice), j \in 1..Len(slice) :
    /\ cmp' = [op |-> "Less", i |-> i, j |-> j, res |-> Less(slice, i, j)]
    /\ UNCHANGED <<slice, unsorted>>
    /\ UNCHANGED incVars
    /\ UNCHANGED tagVars
    /\ UNCHANGED heapVars

\* sort.Sort(semver.ParsedVersionSlice(slice))
DoSort ==
  /\ slice # <<>>
  /\ Len(slice) <= 12
  /\ unsorted = NotSorted
  /\ unsorted' = slice
  /\ slice' = Sort(slice)
  /\ cmp' = NoLess
  /\ UNCHANGED incVars
  /\ UNCHANGED tagVars
  /\ UNCHANGED heapVars

NextLess == Load \/ Compare \/ DoSort

SpecLess == Init /\ [][NextLess]_vars

\* ------------------------------------------------------------- nextTag
\* How many of the seven bump flags a command line sets at most.
MaxFlags == 2
\* How many remotes the repository has at most.
MaxRemotes == 2

FlagNames == {"major", "minor", "patch", "alpha", "beta", "gamma", "rc"}
FlagSets == {f \in SUBSET FlagNames : Cardinality(f) <= MaxFlags}

\* The tag names repositories are made of; the last two do not parse.
TagPool ==
  { <<"0", ".", "0", ".", "9">>,
    <<"v", "0", ".", "9", ".", "0", "-">> \o sAlpha \o <<".", "9">>,
    <<"0", ".", "9", ".", "0", "-">> \o sRC \o <<".", "9">>,
    <<"0", ".", "9", ".", "0", "-">> \o sRC \o <<".", "9", "-">> \o sPre,
    <<"9", ".", "0">>,
    <<"v", "9">> }

TagSets == {t \in SUBSET TagPool : Cardinality(t) <= MaxLen}

\* The orders in which a range over a map with the keys t can run.
Orders(t) ==
  {o \in [1..Cardinality(t) -> t] : \A i, j \in 1..Cardinality(t) : o[i] = o[j] => i = j}

\* An error a library call returned, named by the call.
errOf(call) == <<"error of ", call>>

errTreeNotClean == <<"Cancelled tagging because tree was not clean">>
errCancelledInitial == <<"Cancelled initial tagging">>
errNoSegment == <<"Did not specify how to upgrade the version">>
errCancelled == <<"Tagging cancelled">>
errDryRun == <<"Tagging cancelled due to dry-run">>
errAlreadyTagged(possibleTag) ==
  <<"Repository is already tagged with ">> \o possibleTag
    \o <<" and no more commits have been made">>
errNeedFiles(v) == <<"Need to process files to add version ">> \o String(v)

\* The errors of isTreeClean, repo.Reference and retrieveTags.
StartErrors ==
  { errOf("repo.Worktree"), errOf("wt.Status"), errTreeNotClean,
    errOf("repo.Reference"), errOf("repo.Tags"), errOf("repo.TagObject") }

\* askInitialTagging: the configuration initial_v and the answer to the menu
askInitialTagging(initialV, answer) ==
  LET versionInitial == IF initialV THEN <<"v", "0", ".", "1", ".", "0">>
                        ELSE <<"0", ".", "1", ".", "0">>
  IN IF answer = "Yes" THEN Return(versionInitial, Nil)
     ELSE Return(<<>>, errCancelledInitial)

getVersionSegment(f) ==
  CASE "major" \in f -> Return(Major, Nil)
    [] "minor" \in f -> Return(Minor, Nil)
    [] "patch" \in f -> Return(Patch, Nil)
    [] "alpha" \in f -> Return(Alpha, Nil)
    [] "beta" \in f -> Return(Beta, Nil)
    [] "gamma" \in f -> Return(Gamma, Nil)
    [] "rc" \in f -> Return(RC, Nil)
    [] OTHER -> Return(NonSegment, errNoSegment)

\* What doTagging did: the error it returned, the tags it created, how many
\* remotes it listed and the remotes it pushed to.
Tagged(err, made, n, sent) == [err |-> err, created |-> made, remotes |-> n, pushed |-> sent]

doTaggingDryLate(tag, dry, confirm, createOK, remotesOK, n, failAt) ==
  IF ~confirm THEN Tagged(errCancelled, {}, 0, {})
  ELSE IF ~createOK THEN Tagged(errOf("repo.CreateTag"), {}, 0, {})
  ELSE IF dry THEN Tagged(errDryRun, {tag}, 0, {})
  ELSE IF ~remotesOK THEN Tagged(errOf("repo.Remotes"), {tag}, 0, {})
  ELSE IF failAt # 0 THEN Tagged(errOf("remote.Push"), {tag}, n, 1..(failAt - 1))
  ELSE Tagged(Nil, {tag}, n, 1..n)

\* doTagging(tag, head, dry). The other arguments are what the user and the
\* repository do: confirm is whether prompt.Run returned no error, createOK
\* and remotesOK whether repo.CreateTag and repo.Remotes did, n is the number
\* of remotes and failAt the position of the remote whose push fails (0: none).
doTagging(tag, dry, confirm, createOK, remotesOK, n, failAt) ==
  IF ~confirm THEN Tagged(errCancelled, {}, 0, {})
  ELSE IF dry THEN Tagged(errDryRun, {}, 0, {})
  ELSE IF ~createOK THEN Tagged(errOf("repo.CreateTag"), {}, 0, {})
  ELSE IF ~remotesOK THEN Tagged(errOf("repo.Remotes"), {tag}, 0, {})
  ELSE IF failAt # 0 THEN Tagged(errOf("remote.Push"), {tag}, n, 1..(failAt - 1))
  ELSE Tagged(Nil, {tag}, n, 1..n)

leavePreAsPre(next, vs) == IncrementVersion(next, Pre, TRUE)

\* pvNext.IncrementVersion(vs, true)
leavePre(next, vs) == IncrementVersion(next, vs, TRUE)

\* nextTag up to retrieveTags, for a command line with the flags f and dry
Begin ==
  /\ pc = "idle"
  /\ \E f \in FlagSets, dry \in BOOLEAN, e \in StartErrors \cup {Nil}, found \in TagSets :
    /\ flags' = f
    /\ dryrun' = dry
    /\ IF e # Nil
       THEN pc' = "returned" /\ ret' = e /\ tags' = tags
       ELSE pc' = "tags" /\ ret' = ret /\ tags' = found
    /\ UNCHANGED <<tagVersions, pvCurrent, segment, pvNext, created, remotes,
                   pushed, pvFinal, rewritten, described>>
    /\ UNCHANGED <<incVars, lessVars>>
    /\ UNCHANGED heapVars

\* if len(tags) == 0: askInitialTagging and doTagging
InitialTagging ==
  /\ pc = "tags"
  /\ tags = {}
  /\ \E initialV \in BOOLEAN, answer \in {"Yes", "No", "interrupt"},
        confirm \in BOOLEAN, createOK \in BOOLEAN, remotesOK \in BOOLEAN,
        n \in 0..MaxRemotes :
    \E failAt \in 0..n :
      /\ LET a == askInitialTagging(initialV, answer)
             r == IF a.err # Nil THEN Tagged(a.err, {}, 0, {})
                  ELSE doTagging(a.val, dryrun, confirm, createOK, remotesOK, n, failAt)
         IN /\ ret' = r.err
            /\ created' = r.created
            /\ remotes' = r.remotes
            /\ pushed' = r.pushed
      /\ pc' = "returned"
      /\ UNCHANGED <<tags, flags, tagVersions, pvCurrent, segment, pvNext, dryrun,
                     pvFinal, rewritten, described>>
      /\ UNCHANGED <<incVars, lessVars>>
      /\ UNCHANGED heapVars

\* tagVersions is made, filled, sorted and reversed; pvCurrent := tagVersions[0]
\* and pvCurrent.String(), which dereferences pvCurrent
CurrentVersion ==
  /\ pc = "tags"
  /\ tags # {}
  /\ \E order \in Orders(tags) :
    /\ LET made == [k \in 1..Len(order) |-> Nil]
           filled == made \o [k \in 1..Len(order) |-> ParseVersion(order[k])]
       IN tagVersions' = Reversed(Sort(filled))
    /\ pvCurrent' = tagVersions'[1]
    /\ pc' = IF pvCurrent' = Nil THEN "panicked" ELSE "current"
    /\ UNCHANGED <<tags, flags, segment, pvNext, dryrun, ret, created, remotes,
                   pushed, pvFinal, rewritten, described>>
    /\ UNCHANGED <<incVars, lessVars>>
    /\ UNCHANGED heapVars

\* vs, err := getVersionSegment(flags); pvNext, err := pvCurrent.IncrementVersion(vs, false)
Bump ==
  /\ pc = "current"
  /\ LET g == getVersionSegment(flags)
         r == IncrementVersion(Deref(pvCurrent), g.val, FALSE)
     IN /\ segment' = g.val
        /\ IF g.err # Nil
           THEN pc' = "returned" /\ ret' = g.err /\ pvNext' = pvNext
           ELSE IF r.panicked
           THEN pc' = "panicked" /\ ret' = ret /\ pvNext' = pvNext
           ELSE IF r.err # Nil
           THEN pc' = "returned" /\ ret' = r.err /\ pvNext' = r.val
           ELSE pc' = "next" /\ ret' = ret /\ pvNext' = r.val
  /\ UNCHANGED <<tags, flags, tagVersions, pvCurrent, dryrun, created, remotes,
                 pushed, pvFinal, rewritten, described>>
  /\ UNCHANGED <<incVars, lessVars>>
  /\ UNCHANGED heapVars

describeIgnored(failed, out) ==
  IF failed THEN errOf("git describe") ELSE Nil

\* The error nextTag returns after git describe --contains, which failed or
\* printed out; Nil when it goes on.
describeError(failed, out) ==
  IF failed THEN errOf("git describe")
  ELSE IF out # <<>> THEN errAlreadyTagged(out)
  ELSE Nil

\* git describe --contains on HEAD: it fails, or prints out
Describe ==
  /\ pc = "next"
  /\ \E failed \in BOOLEAN, out \in {<<>>} \cup {t \o <<"\n">> : t \in tags} :
    /\ described' = [ran |-> TRUE, failed |-> failed, out |-> out]
    /\ IF describeError(failed, out) # Nil
       THEN pc' = "returned" /\ ret' = describeError(failed, out)
       ELSE pc' = "untagged" /\ ret' = ret
    /\ UNCHANGED <<tags, flags, tagVersions, pvCurrent, segment, pvNext, dryrun,
                   created, remotes, pushed, pvFinal, rewritten>>
    /\ UNCHANGED <<incVars, lessVars>>
    /\ UNCHANGED heapVars

\* err = doTagging(pvNext.String(), head.Hash(), dryrun)
Tagging ==
  /\ pc = "untagged"
  /\ \E confirm \in BOOLEAN, createOK \in BOOLEAN, remotesOK \in BOOLEAN,
        n \in 0..MaxRemotes :
    \E failAt \in 0..n :
      /\ LET r == doTagging(String(Deref(pvNext)), dryrun, confirm, createOK,
                            remotesOK, n, failAt)
         IN /\ ret' = r.err
            /\ created' = r.created
            /\ remotes' = r.remotes
            /\ pushed' = r.pushed
            /\ pc' = IF r.err # Nil THEN "returned" ELSE "tagged"
      /\ UNCHANGED <<tags, flags, tagVersions, pvCurrent, segment, pvNext, dryrun,
                     pvFinal, rewritten, described>>
      /\ UNCHANGED <<incVars, lessVars>>
      /\ UNCHANGED heapVars

\* if viper.GetBool("always_leave_version_pre") { ... }; return nil
LeavePre ==
  /\ pc = "tagged"
  /\ \E always \in BOOLEAN :
    /\ LET f == leavePre(Deref(pvNext), segment)
       IN IF ~always
          THEN pc' = "returned" /\ ret' = Nil /\ pvFinal' = pvFinal
          ELSE IF f.panicked
          THEN pc' = "panicked" /\ ret' = ret /\ pvFinal' = pvFinal
          ELSE IF f.err # Nil
          THEN pc' = "returned" /\ ret' = f.err /\ pvFinal' = f.val
          ELSE pc' = "returned" /\ ret' = errNeedFiles(Deref(f.val)) /\ pvFinal' = f.val
    /\ UNCHANGED <<tags, flags, tagVersions, pvCurrent, segment, pvNext, dryrun,
                   created, remotes, pushed, rewritten, described>>
    /\ UNCHANGED <<incVars, lessVars>>
    /\ UNCHANGED heapVars

NextTag ==
  Begin \/ InitialTagging \/ CurrentVersion \/ Bump \/ Describe \/ Tagging \/ LeavePre

SpecTag == Init /\ [][NextTag]_vars

\* ------------------------------------------- ParsedVersion in memory
\* How many ParsedVersion values are allocated at most.
MaxHeap == 3

\* The tag names the first value in memory is parsed from.
HeapInputs ==
  { <<"0", ".", "0", ".", "9">>,
    <<"0", ".", "9", ".", "0", "-">> \o sAlpha \o <<".", "9">>,
    <<"9", ".", "0", ".", "0", "-">> \o sGamma \o <<".", "0", "-">> \o sPre,
    <<"0", ".", "0", ".", "0", "-">> \o sPre }

\* What a call leaves: the memory, and the address it returns (0 for nil).
Left(h, addr) == [heap |-> h, addr |-> addr]

returnInPlace(h, recv, next) == Left([h EXCEPT ![recv] = next], recv)

\* return &pvNext, where pvNext is a variable of the call: the value next
\* is put at an address of its own. recv is the address of the receiver,
\* which the call reads a copy of (func (pv ParsedVersion) ...).
returnNew(h, recv, next) == Left(Append(h, next), Len(h) + 1)

\* pv := ParseVersion(v), the first value in memory
Allocate ==
  /\ heap = <<>>
  /\ \E v \in HeapInputs :
    /\ ParseVersion(v) # Nil
    /\ heap' = <<Deref(ParseVersion(v))>>
    /\ UNCHANGED lastCall
    /\ UNCHANGED <<incVars, lessVars, tagVars>>

\* p.IncrementVersion(vs, isPre) for a pointer p to a value in memory
IncrementAt ==
  /\ heap # <<>>
  /\ Len(heap) < MaxHeap
  /\ \E recv \in 1..Len(heap), vs \in VersionSegment, isPre \in BOOLEAN :
       LET r == IncrementVersion(heap[recv], vs, isPre)
           l == IF r.val = Nil THEN Left(heap, 0)
                ELSE returnNew(heap, recv, Deref(r.val))
       IN /\ ~r.panicked
          /\ heap' = l.heap
          /\ lastCall' = [op |-> "IncrementVersion", recv |-> recv, vs |-> vs,
                          isPre |-> isPre, before |-> heap, val |-> l.addr,
                          failed |-> r.err # Nil]
          /\ UNCHANGED <<incVars, lessVars, tagVars>>

NextHeap == Allocate \/ IncrementAt

SpecHeap == Init /\ [][NextHeap]_vars

\* ------------------------------------------------------- the properties
\* The call last.op was IncrementVersion(vs, isPre) on the value Recv.
Incremented == last.op = "IncrementVersion"
Recv == Deref(last.recv)
Succeeded == last.val # Nil /\ last.err = Nil /\ ~last.panicked
Failed == last.val = Nil /\ last.err # Nil /\ ~last.panicked
Categories == {Alpha, Beta, Gamma, RC}

\* The categories a bump to category t is legal from.
LegalFrom(t) ==
  CASE t = Alpha -> {NonSegment, Alpha}
    [] t = Beta -> {NonSegment, Alpha, Beta}
    [] t = Gamma -> {NonSegment, Alpha, Beta, Gamma}
    [] t = RC -> {NonSegment, Alpha, Beta, Gamma, RC}

\* The lower-case name of a category.
CategoryName(c) ==
  CASE c = Alpha -> <<"a", "l", "p", "h", "a">>
    [] c = Beta -> <<"b", "e", "t", "a">>
    [] c = Gamma -> <<"g", "a", "m", "m", "a">>
    [] c = RC -> <<"r", "c">>
    [] OTHER -> <<>>

\* part occurs in s.
Contains(s, part) == \E i \in 1..(Len(s) + 1) : HasLit(s, i, part)

\* C1: a bump to a category T in {Alpha, Beta, Gamma, RC} succeeds exactly
\* when the current category is None or not more mature than T, and in every
\* other case returns an error and no value.
C1_LegalityTable ==
  (Incremented /\ last.vs \in Categories) =>
    /\ Succeeded <=> Recv.lowerCategory \in LegalFrom(last.vs)
    /\ Recv.lowerCategory \notin LegalFrom(last.vs) => Failed

C1_Witness ==
  /\ Incremented /\ last.vs = Alpha /\ Recv.lowerCategory = Beta /\ Failed

\* C2: Major, Minor and Patch bumps never fail and yield (major+1, 0, 0),
\* (major, minor+1, 0) and (major, minor, patch+1), with category None,
\* counter 0 and isPre equal to wantPre.
C2_NumberBumps ==
  (Incremented /\ last.vs \in {Major, Minor, Patch}) =>
    /\ Succeeded
    /\ Deref(last.val) =
         [major |-> IF last.vs = Major THEN Recv.major + 1 ELSE Recv.major,
          minor |-> CASE last.vs = Major -> 0
                      [] last.vs = Minor -> Recv.minor + 1
                      [] OTHER -> Recv.minor,
          patch |-> IF last.vs = Patch THEN Recv.patch + 1 ELSE 0,
          lower |-> 0,
          lowerCategory |-> NonSegment,
          isPre |-> last.isPre]

C2_Witness ==
  /\ Incremented /\ last.vs = Minor /\ Succeeded
  /\ Recv.patch > 0 /\ Recv.lowerCategory # NonSegment /\ Recv.isPre /\ ~last.isPre
  /\ Deref(last.val).patch = 0 /\ ~Deref(last.val).isPre

\* C3: when the target category equals the current one, or the current one
\* is None, the bump keeps major, minor and patch, sets the category to the
\* target, the counter to the current counter plus 1, and isPre to wantPre.
C3_SameCategory ==
  (/\ Incremented /\ last.vs \in Categories
   /\ Recv.lowerCategory \in {last.vs, NonSegment}) =>
    /\ Succeeded
    /\ Deref(last.val) =
         [major |-> Recv.major, minor |-> Recv.minor, patch |-> Recv.patch,
          lower |-> Recv.lower + 1, lowerCategory |-> last.vs,
          isPre |-> last.isPre]

C3_Witness ==
  /\ Incremented /\ last.vs = Beta /\ Recv.lowerCategory = Beta
  /\ Recv.lower = 9 /\ last.isPre /\ ~Recv.isPre
  /\ Succeeded /\ Deref(last.val).lower = 10 /\ Deref(last.val).isPre

\* C4: when the target category is higher than the current category, which
\* is not None, the bump keeps major, minor and patch, sets the category to
\* the target and resets the counter to 1.
C4_HigherCategory ==
  (/\ Incremented /\ last.vs \in Categories
   /\ Recv.lowerCategory \in Categories /\ Recv.lowerCategory < last.vs) =>
    /\ Succeeded
    /\ Deref(last.val).major = Recv.major
    /\ Deref(last.val).minor = Recv.minor
    /\ Deref(last.val).patch = Recv.patch
    /\ Deref(last.val).lowerCategory = last.vs
    /\ Deref(last.val).lower = 1

C4_Witness ==
  /\ Incremented /\ last.vs = RC /\ Recv.lowerCategory = Alpha
  /\ Recv.lower = 99 /\ Succeeded /\ Deref(last.val).lower = 1

\* C5: every successful bump to a category, on the higher-category branch as
\* on the same-category branch, returns a value whose isPre is wantPre.
C5_WantPreUniform ==
  (Incremented /\ last.vs \in Categories /\ Succeeded) =>
    Deref(last.val).isPre = last.isPre

\* C6: a Pre bump succeeds exactly when the current value is pre-marked; the
\* result then has the numbers, category and counter of the current value
\* and isPre equal to wantPre; otherwise there is an error and no value.
C6_MarkPre ==
  (Incremented /\ last.vs = Pre) =>
    /\ Succeeded <=> Recv.isPre
    /\ Recv.isPre => Deref(last.val) = [Recv EXCEPT !.isPre = last.isPre]
    /\ ~Recv.isPre => Failed

C6_Witness ==
  /\ Incremented /\ last.vs = Pre /\ Recv.isPre /\ ~last.isPre
  /\ Succeeded /\ ~Deref(last.val).isPre /\ Deref(last.val).lower = Recv.lower
  /\ Recv.lowerCategory = Gamma

\* C7: a NonSegment bump returns an error and no value, for every current
\* value and both values of wantPre.
C7_Unspecified ==
  (Incremented /\ last.vs = NonSegment) => Failed

C7_Witness ==
  /\ Incremented /\ last.vs = NonSegment /\ last.isPre /\ Failed
  /\ Recv.lowerCategory = RC

\* C8: the error of a rejected bump to a category contains the non-empty
\* lower-case name of the requested category and the non-empty lower-case
\* name of the current category.
C8_ErrorNamesBoth ==
  (Incremented /\ last.vs \in Categories /\ last.err # Nil) =>
    /\ CategoryName(last.vs) # <<>>
    /\ CategoryName(Recv.lowerCategory) # <<>>
    /\ Contains(last.err, CategoryName(last.vs))
    /\ Contains(last.err, CategoryName(Recv.lowerCategory))

C8_Witness ==
  /\ Incremented /\ last.vs = Beta /\ Recv.lowerCategory = RC /\ Failed
  /\ Contains(last.err, sBeta) /\ Contains(last.err, sRC)

\* C9: in every value ParseVersion or IncrementVersion produces, the
\* category is None exactly when the counter is 0, and any other category
\* goes with a counter of at least 1.
Consistent(p) ==
  p # Nil =>
    /\ Deref(p).lowerCategory = NonSegment <=> Deref(p).lower = 0
    /\ Deref(p).lowerCategory # NonSegment => Deref(p).lower >= 1

C9_CategoryCounterConsistent ==
  /\ Consistent(pv)
  /\ last.op \in {"ParseVersion", "IncrementVersion", "Reparse"} => Consistent(last.val)

\* C10: for every string ParseVersion accepts, parsing the String of the
\* parsed value gives the parsed value again, field by field.
C10_RoundTrip ==
  (last.op = "Reparse" /\ last.fromParse) => pv = last.recv

C10_Witness ==
  /\ last.op = "Reparse" /\ last.fromParse /\ pv = last.recv /\ pv # Nil
  /\ last.input # last.out /\ last.input # <<>> /\ ~HasLit(last.input, 1, <<"v">>)
  /\ Deref(pv).lowerCategory = Gamma /\ Deref(pv).isPre /\ Deref(pv).major = 90
  /\ Deref(pv).minor = 9 /\ Deref(pv).patch = 99 /\ Deref(pv).lower = 9

\* --------------------------------------- the grammar, stated on its own
\* d is a non-empty run of digits.
IsNumber(d) == Len(d) > 0 /\ \A k \in 1..Len(d) : IsDigit(d[k])

\* The number a run of digits denotes.
RECURSIVE NumberOf(_)
NumberOf(d) ==
  IF Len(d) = 0 THEN 0
  ELSE 10 * NumberOf(SubSeq(d, 1, Len(d) - 1))
       + (CHOOSE n \in 0..9 : DigitChars[n + 1] = d[Len(d)])

\* t is "-" keyword "." number, for one of the four keywords.
IsLowerClause(t) ==
  \E c \in Categories :
    /\ HasLit(t, 1, <<"-">> \o CategoryName(c) \o <<".">>)
    /\ IsNumber(SubSeq(t, Len(CategoryName(c)) + 3, Len(t)))

\* t is [-(alpha|beta|gamma|rc).counter][-pre]
IsTail(t) ==
  \E k \in 0..Len(t) :
    /\ k = 0 \/ IsLowerClause(SubSeq(t, 1, k))
    /\ SubSeq(t, k + 1, Len(t)) \in {<<>>, <<"-", "p", "r", "e">>}

\* s is v? major.minor.patch [-(alpha|beta|gamma|rc).counter] [-pre]
InGrammar(s) ==
  \E p \in {0, 1}, a \in 1..Len(s), b \in 1..Len(s), c \in 1..Len(s) :
    /\ a < b /\ b < c
    /\ p = 1 => HasLit(s, 1, <<"v">>)
    /\ s[a] = "." /\ s[b] = "."
    /\ IsNumber(SubSeq(s, p + 1, a - 1))
    /\ IsNumber(SubSeq(s, a + 1, b - 1))
    /\ IsNumber(SubSeq(s, b + 1, c))
    /\ IsTail(SubSeq(s, c + 1, Len(s)))

Parsed == last.op = "ParseVersion"

\* C11: ParseVersion returns a value exactly for the strings that match
\* v? major.minor.patch [-(alpha|beta|gamma|rc).counter] [-pre] as a whole,
\* and nil for every other string.
C11_AcceptsOnlyGrammar ==
  Parsed => (last.val # Nil <=> InGrammar(last.input))

C11_Witness ==
  /\ Parsed /\ last.val = Nil
  /\ last.input = <<"9", ".", "0", ".", "0", "-", "p", "r", "e", ".", "9">>

\* The maturity clauses of s: the category and the value of the counter of
\* each place where "-" keyword "." digits stands in s.
ClausesIn(s) ==
  {<<c, NumberOf(SubSeq(s, i + Len(CategoryName(c)) + 2,
                        SkipDigits(s, i + Len(CategoryName(c)) + 2) - 1))>> :
     <<c, i>> \in {x \in Categories \X (1..Len(s)) :
                     HasLit(s, x[2], <<"-">> \o CategoryName(x[1]) \o <<".">>)}}

\* C12: for an accepted string, isPre is true exactly when the string ends
\* in "-pre", category and counter are those of the maturity clause, or None
\* and 0 without one, and the string with a "v" in front parses to the same
\* value.
C12_ParsedFields ==
  (Parsed /\ last.val # Nil) =>
    /\ Deref(last.val).isPre <=>
         HasLit(last.input, Len(last.input) - 3, <<"-", "p", "r", "e">>)
    /\ ClausesIn(last.input) = {} =>
         Deref(last.val).lowerCategory = NonSegment /\ Deref(last.val).lower = 0
    /\ ClausesIn(last.input) # {} =>
         ClausesIn(last.input) = {<<Deref(last.val).lowerCategory, Deref(last.val).lower>>}
    /\ ~HasLit(last.input, 1, <<"v">>) => ParseVersion(<<"v">> \o last.input) = last.val

C12_Witness ==
  /\ Parsed /\ last.val # Nil /\ ~HasLit(last.input, 1, <<"v">>)
  /\ Deref(last.val).lowerCategory = RC /\ Deref(last.val).lower = 100
  /\ ~Deref(last.val).isPre

\* d is the decimal numeral of n, without leading zeros.
IsNumeral(d, n) ==
  /\ IsNumber(d)
  /\ Len(d) = 1 \/ d[1] # "0"
  /\ NumberOf(d) = n

\* C13: String renders major.minor.patch, then -category.counter exactly
\* when the category is not None, then -pre exactly when isPre, and no "v".
C13_StringFormat ==
  last.op = "String" =>
    LET v == Deref(last.recv)
        o == last.out
    IN \E a \in 1..Len(o), b \in 1..Len(o), c \in 1..Len(o) :
         /\ a < b /\ b < c
         /\ o[a] = "." /\ o[b] = "."
         /\ IsNumeral(SubSeq(o, 1, a - 1), v.major)
         /\ IsNumeral(SubSeq(o, a + 1, b - 1), v.minor)
         /\ IsNumeral(SubSeq(o, b + 1, c), v.patch)
         /\ LET t == SubSeq(o, c + 1, Len(o))
                k == IF v.isPre THEN Len(t) - 4 ELSE Len(t)
                n == Len(CategoryName(v.lowerCategory))
            IN /\ k >= 0
               /\ SubSeq(t, k + 1, Len(t)) =
                    IF v.isPre THEN <<"-", "p", "r", "e">> ELSE <<>>
               /\ IF v.lowerCategory = NonSegment THEN k = 0
                  ELSE /\ HasLit(t, 1, <<"-">> \o CategoryName(v.lowerCategory) \o <<".">>)
                       /\ IsNumeral(SubSeq(t, n + 3, k), v.lower)

C13_Witness ==
  /\ last.op = "String"
  /\ Deref(last.recv) = [major |-> 1, minor |-> 2, patch |-> 3, lower |-> 3,
                         lowerCategory |-> Beta, isPre |-> TRUE]
  /\ last.out = <<"1", ".", "2", ".", "3", "-", "b", "e", "t", "a", ".", "3", "-",
                  "p", "r", "e">>

\* ------------------------------------------------ properties of Less
Compared == cmp.op = "Less"
CmpI == slice[cmp.i]
CmpJ == slice[cmp.j]
BothParsed == Compared /\ CmpI # Nil /\ CmpJ # Nil

\* The rank of a category in the ordering: a final release is last.
Rank(c) ==
  CASE c = Alpha -> 1 [] c = Beta -> 2 [] c = Gamma -> 3 [] c = RC -> 4
    [] c = NonSegment -> 5

\* (major, minor, patch, rank of the category, counter)
Key(v) == <<v.major, v.minor, v.patch, Rank(v.lowerCategory), v.lower>>

\* x is before y at the first place where they differ.
LexLess(x, y) ==
  \E k \in 1..Len(x) :
    /\ x[k] < y[k]
    /\ \A m \in 1..(k - 1) : x[m] = y[m]

\* C14: for two parsed values, Less is decided by the first field that
\* differs, in the order major, minor, patch, category ranked
\* Alpha < Beta < Gamma < RC < None, counter.
C14_LessByFirstDifference ==
  (BothParsed /\ Key(Deref(CmpI)) # Key(Deref(CmpJ))) =>
    (cmp.res <=> LexLess(Key(Deref(CmpI)), Key(Deref(CmpJ))))

C14_Witness ==
  /\ BothParsed /\ cmp.res
  /\ Deref(CmpI).lowerCategory = Alpha /\ Deref(CmpI).lower = 99
  /\ Deref(CmpJ).lowerCategory = NonSegment /\ Deref(CmpJ).isPre
  /\ Deref(CmpI).patch = Deref(CmpJ).patch /\ Deref(CmpI).major = Deref(CmpJ).major

\* C15: with major, minor, patch, category and counter equal, Less(a, b)
\* holds exactly when a is pre-marked and b is not; with one of them
\* different, the pre markers do not change the result.
C15_PreIsLastTieBreak ==
  BothParsed =>
    IF Key(Deref(CmpI)) = Key(Deref(CmpJ))
    THEN cmp.res <=> (Deref(CmpI).isPre /\ ~Deref(CmpJ).isPre)
    ELSE \A pi \in BOOLEAN, pj \in BOOLEAN :
           cmp.res <=> Less(<<Ptr([Deref(CmpI) EXCEPT !.isPre = pi]),
                              Ptr([Deref(CmpJ) EXCEPT !.isPre = pj])>>, 1, 2)

C15_Witness ==
  /\ BothParsed /\ cmp.res
  /\ Key(Deref(CmpI)) = Key(Deref(CmpJ))
  /\ Deref(CmpI).lowerCategory = NonSegment
  /\ Deref(CmpI).isPre /\ ~Deref(CmpJ).isPre

\* C16: over the entries of a slice, nil included, Less is irreflexive,
\* asymmetric and transitive, and so is being unordered by it; two parsed
\* values that differ in a field are ordered one way or the other.
Unordered(s, i, j) == ~Less(s, i, j) /\ ~Less(s, j, i)

C16_StrictWeakOrder ==
  \A i \in 1..Len(slice), j \in 1..Len(slice) :
    /\ ~Less(slice, i, i)
    /\ Less(slice, i, j) => ~Less(slice, j, i)
    /\ (slice[i] # Nil /\ slice[j] # Nil /\ slice[i] # slice[j]) =>
         (Less(slice, i, j) \/ Less(slice, j, i))
    /\ slice[i] = slice[j] => Unordered(slice, i, j)
    /\ \A k \in 1..Len(slice) :
         /\ (Less(slice, i, j) /\ Less(slice, j, k)) => Less(slice, i, k)
         /\ (Unordered(slice, i, j) /\ Unordered(slice, j, k)) => Unordered(slice, i, k)

C16_Witness ==
  /\ Len(slice) = 3 /\ unsorted = NotSorted
  /\ slice[1] = Nil /\ slice[2] # Nil /\ slice[3] # Nil
  /\ Deref(slice[2]).isPre /\ Key(Deref(slice[2])) = Key(Deref(slice[3]))
  /\ Less(slice, 1, 2) /\ Less(slice, 2, 3) /\ Less(slice, 1, 3)
  /\ Compared /\ cmp.i = 1 /\ cmp.j = 3 /\ cmp.res

\* C17 as claimed: nil sorts after every parsed value, Less(x, nil) is true
\* and Less(nil, x) is false.
C17_NilSortsLast ==
  Compared =>
    /\ (CmpI # Nil /\ CmpJ = Nil) => cmp.res
    /\ (CmpI = Nil /\ CmpJ # Nil) => ~cmp.res

\* C17, amended: nil sorts before every parsed value in the ascending
\* order of Less, Less(nil, x) is true and Less(x, nil) is false.
C17_NilSortsFirst ==
  Compared =>
    /\ (CmpI = Nil /\ CmpJ # Nil) => cmp.res
    /\ (CmpI # Nil /\ CmpJ = Nil) => ~cmp.res

C17_Witness ==
  /\ Compared /\ CmpI = Nil /\ CmpJ # Nil /\ cmp.res
  /\ Deref(CmpJ).major = 0 /\ Deref(CmpJ).lowerCategory = Alpha

\* C18: sort.Sort leaves a permutation of the slice in which no element is
\* Less than an earlier one; the versions of TestSorting come out in the
\* order the test expects, whatever order they went in.
Count(s, x) == Cardinality({k \in 1..Len(s) : s[k] = x})

IsPermutation(s, t) ==
  /\ Len(s) = Len(t)
  /\ \A k \in 1..Len(s) : Count(s, s[k]) = Count(t, s[k])

TestExpected ==
  << <<"0", ".", "1", ".", "0", "-", "a", "l", "p", "h", "a", ".", "1">>,
     <<"0", ".", "1", ".", "0", "-", "b", "e", "t", "a", ".", "1">>,
     <<"0", ".", "1", ".", "0", "-", "g", "a", "m", "m", "a", ".", "1", "-", "p", "r", "e">>,
     <<"0", ".", "1", ".", "0", "-", "g", "a", "m", "m", "a", ".", "1">>,
     <<"0", ".", "1", ".", "0", "-", "p", "r", "e">>,
     <<"0", ".", "1", ".", "0">>,
     <<"0", ".", "1", ".", "1">>,
     <<"0", ".", "2", ".", "0">>,
     <<"3", ".", "0", ".", "1">>,
     <<"3", ".", "3", ".", "1">> >>

C18_SortSorts ==
  unsorted # NotSorted =>
    /\ IsPermutation(slice, unsorted)
    /\ \A i \in 1..Len(slice), j \in 1..Len(slice) : i < j => ~Less(slice, j, i)
    /\ Len(slice) = Len(TestExpected) =>
         \A k \in 1..Len(slice) :
           /\ slice[k] # Nil
           /\ String(Deref(slice[k])) = TestExpected[k]

C18_Witness ==
  /\ unsorted # NotSorted /\ Len(slice) = Len(TestExpected)
  /\ unsorted # slice
  /\ String(Deref(unsorted[1])) = <<"0", ".", "2", ".", "0">>
  /\ String(Deref(slice[5])) = <<"0", ".", "1", ".", "0", "-", "p", "r", "e">>

\* ---------------------------------------------- properties of nextTag
\* The run took pvCurrent from a non-empty collection of tags.
Selected == pc \notin {"idle", "tags"} /\ tags # {}

\* C19: for every non-empty collection of tag names, the value nextTag uses
\* as the current version is a parsed value, never nil, and Less orders no
\* parseable tag of the collection strictly after it, also when some or all
\* of the names do not parse.
C19_CurrentIsParsedMaximum ==
  Selected =>
    /\ pvCurrent # Nil
    /\ \A t \in tags :
         ParseVersion(t) # Nil => ~Less(<<pvCurrent, ParseVersion(t)>>, 1, 2)

\* The error of the bump of a run that has a current version: the one of
\* getVersionSegment, else the one of pvCurrent.IncrementVersion(vs, false).
BumpError ==
  LET g == getVersionSegment(flags)
  IN IF g.err # Nil THEN g.err ELSE IncrementVersion(Deref(pvCurrent), g.val, FALSE).err

\* The run is past the bump.
Bumped == pc \in {"next", "untagged", "tagged", "returned"} /\ pvCurrent # Nil

\* e is an error that IncrementVersion or getVersionSegment makes.
IsBumpError(e) ==
  /\ e # Nil
  /\ e[1] \in {"Did not specify how to upgrade the version", "Cannot create an ",
               "Cannot upgrade non-prerelease version "}

\* C20: a run of nextTag in which getVersionSegment or IncrementVersion
\* returns an error ends with that error, and it has created no tag, pushed
\* to no remote and rewritten no file.
C20_FailedBumpNoSideEffects ==
  /\ (Bumped /\ BumpError # Nil) =>
       pc = "returned" /\ ret = BumpError
  /\ IsBumpError(ret) =>
       pc = "returned" /\ created = {} /\ pushed = {} /\ rewritten = {}

C20_Witness ==
  /\ Bumped
  /\ segment \in Categories
  /\ BumpError # Nil
  /\ ret = BumpError
  /\ Cardinality(tags) > 1

\* The follow-up version nextTag computed after it created the tag pvNext.
FollowedUp == pc = "returned" /\ pvFinal # Nil /\ pvNext # Nil /\ created # {}

\* v with only its last number incremented by one and the pre marker added.
LastNumberBumped(v) ==
  IF v.lowerCategory = NonSegment
  THEN [v EXCEPT !.patch = v.patch + 1, !.isPre = TRUE]
  ELSE [v EXCEPT !.lower = v.lower + 1, !.isPre = TRUE]

\* C21: after a tag is created with always_leave_version_pre on, the
\* follow-up version is the tagged version with only its last number (the
\* patch level, or the counter of its maturity clause) incremented by one and
\* the pre marker added, for every bump kind.
C21_FollowUpBumpsLastNumber ==
  FollowedUp => Deref(pvFinal) = LastNumberBumped(Deref(pvNext))

\* The segment that has the name of the flag f.
SegmentNamed(f) ==
  CASE f = "major" -> Major [] f = "minor" -> Minor [] f = "patch" -> Patch
    [] f = "alpha" -> Alpha [] f = "beta" -> Beta [] f = "gamma" -> Gamma
    [] f = "rc" -> RC

\* C22: a bump request is accepted only when exactly one of the seven flags
\* is selected, and it is then the segment of the same name; when no flag is
\* selected the run fails with the Unspecified error before any increment.
C22_ExactlyOneFlag ==
  Bumped =>
    /\ segment # NonSegment =>
         /\ Cardinality(flags) = 1
         /\ \A f \in flags : segment = SegmentNamed(f)
    /\ flags = {} =>
         /\ segment = NonSegment
         /\ pc = "returned"
         /\ ret = errNoSegment
         /\ pvNext = Nil

\* --------------------------------------------- the case of the keyword
\* s is g but for the letter case of some letters of g's maturity keyword.
KeywordVariantOf(s, g) ==
  /\ Len(s) = Len(g)
  /\ \E k \in 1..Len(Keywords), i \in 1..Len(g) :
       /\ HasLit(g, i, <<"-">> \o Keywords[k] \o <<".">>)
       /\ \A p \in 1..Len(s) :
            s[p] # g[p] => /\ p > i
                           /\ p <= i + Len(Keywords[k])
                           /\ ToLower(<<s[p]>>) = <<g[p]>>

\* C23: a string that differs from an accepted string only in the letter
\* case of alpha, beta, gamma or rc is accepted and parses to the same value.
C23_KeywordCaseInsensitive ==
  Parsed =>
    \A g \in GoodInputs :
      KeywordVariantOf(last.input, g) =>
        last.val # Nil /\ last.val = ParseVersion(g)

C25_ValuesNeverMutated ==
  lastCall.op = "IncrementVersion" =>
    /\ \A b \in 1..Len(lastCall.before) : heap[b] = lastCall.before[b]
    /\ lastCall.val # 0 =>
         /\ lastCall.val \notin 1..Len(lastCall.before)
         /\ lastCall.val # lastCall.recv
         /\ lastCall.val \in 1..Len(heap)
    /\ lastCall.failed <=> lastCall.val = 0
    /\ lastCall.failed => heap = lastCall.before

C25_Witness ==
  /\ lastCall.op = "IncrementVersion"
  /\ lastCall.val # 0
  /\ lastCall.isPre
  /\ lastCall.recv = 2
  /\ heap[lastCall.val] # heap[lastCall.recv]

\* ------------------------------------------------ bumps and the order
\* C26: every successful Major, Minor, Patch, Alpha, Beta, Gamma or RC bump
\* with wantPre false gives a value that Less orders after the current one,
\* also a maturity bump taken from a final release.
C26_BumpMovesForward ==
  (Incremented /\ Succeeded /\ last.vs \in Major..RC /\ ~last.isPre) =>
    Less(<<last.recv, last.val>>, 1, 2)

\* ------------------------------------------------ sequences of bumps
\* The numbers (major, minor, patch) of v.
Numbers(v) == <<v.major, v.minor, v.patch>>

\* The numbers x come before the numbers y.
NumbersLess(x, y) ==
  \/ x[1] < y[1]
  \/ x[1] = y[1] /\ x[2] < y[2]
  \/ x[1] = y[1] /\ x[2] = y[2] /\ x[3] < y[3]

\* A step of a sequence of bumps: the current value v, a request that
\* succeeded, and its result, the next current value.
Stepped == Incremented /\ Succeeded
Result == Deref(last.val)

\* What C27 says of the category of a step.
CategoryRatchet ==
  /\ (Numbers(Result) = Numbers(Recv) /\ Recv.lowerCategory # NonSegment) =>
       /\ Result.lowerCategory # NonSegment
       /\ Result.lowerCategory >= Recv.lowerCategory
  /\ (Result.lowerCategory = NonSegment /\ Recv.lowerCategory # NonSegment) =>
       last.vs \in {Major, Minor, Patch}
  /\ last.vs \in {Major, Minor, Patch} => NumbersLess(Numbers(Recv), Numbers(Result))

\* What C27 says of the counter of a step.
CounterIncreases ==
  (Numbers(Result) = Numbers(Recv) /\ Result.lowerCategory = Recv.lowerCategory) =>
    Result.lower > Recv.lower

\* C27 as it is stated: over every sequence of successful bumps, while the
\* numbers stay the same the category never moves to a less mature one or
\* back to none and the counter strictly increases while the category stays
\* the same; the category returns to none only through a Major, Minor or
\* Patch bump, which strictly increases the numbers.
C27_MaturityRatchet ==
  Stepped => CategoryRatchet /\ CounterIncreases

\* C27, amended: the same for the seven bumps Major to RC; a successful Pre
\* request leaves the numbers, the category and the counter as they are.
C27_MaturityRatchetOfBumps ==
  Stepped =>
    /\ CategoryRatchet
    /\ last.vs # Pre => CounterIncreases
    /\ last.vs = Pre =>
         /\ Numbers(Result) = Numbers(Recv)
         /\ Result.lowerCategory = Recv.lowerCategory
         /\ Result.lower = Recv.lower

C27_Witness ==
  /\ Stepped
  /\ bumps = 1
  /\ origin = "IncrementVersion"
  /\ Recv.lowerCategory \in Categories
  /\ last.vs \in Categories
  /\ Result.lowerCategory > Recv.lowerCategory

\* C28: starting from a value whose category is Alpha, Beta, Gamma or RC, no
\* sequence of requests (Major, Minor, Patch, Alpha, Beta, Gamma, RC, Pre,
\* with any wantPre) reaches the value with the same numbers and no category.
C28_NeverFinalizedInPlace ==
  (heap # <<>> /\ heap[1].lowerCategory \in Categories) =>
    \A b \in 1..Len(heap) :
      ~(Numbers(heap[b]) = Numbers(heap[1]) /\ heap[b].lowerCategory = NonSegment)

C28_Witness ==
  /\ Len(heap) = MaxHeap
  /\ heap[1].lowerCategory \in Categories
  /\ lastCall.recv = Len(heap) - 1
  /\ lastCall.val = Len(heap)
  /\ lastCall.vs = Pre
  /\ heap[Len(heap) - 1].lowerCategory \in Categories
  /\ heap[Len(heap) - 1] # heap[1]

\* ------------------------------------------------- tagging a commit
\* C29: in a run of nextTag on a repository that has tags, a tag is created
\* only if git describe --contains on HEAD ran, did not fail and printed no
\* tag; when it printed a tag or failed, the run ends with an error and no
\* tag is created.
C29_NeverTaggedTwice ==
  tags # {} =>
    /\ created # {} =>
         described.ran /\ ~described.failed /\ described.out = <<>>
    /\ (described.ran /\ (described.failed \/ described.out # <<>>)) =>
         pc = "returned" /\ ret # Nil /\ created = {} /\ pushed = {}

C29_Witness ==
  /\ tags # {}
  /\ described.ran
  /\ ~described.failed
  /\ described.out # <<>>
  /\ ~dryrun
  /\ pc = "returned"

\* The errors doTagging returns.
TaggingErrors ==
  { errCancelled, errDryRun, errOf("repo.CreateTag"), errOf("repo.Remotes"),
    errOf("remote.Push") }

\* doTagging returned nil: on the path with tags the run goes on, on the
\* initial path nextTag returns nil.
TaggingSucceeded ==
  \/ pc = "tagged"
  \/ pc = "returned" /\ tags = {} /\ ret = Nil

\* C30: whenever doTagging returns an error (prompt declined, dry-run, tag
\* creation, listing of the remotes or a push failed) the repository holds no
\* new tag; whenever it returns nil the tag exists and a push to every remote
\* has succeeded.
C30_TaggingAllOrNothing ==
  /\ ret \in TaggingErrors => created = {}
  /\ TaggingSucceeded => created # {} /\ pushed = 1..remotes
====
